---- MODULE Spec2Model ----
(***************************************************************************)
(* Hierarchical structure recovery for contract PDFs: the header           *)
(* classifier and the stack machine of hierarchical_parser.py, and the     *)
(* serializer and the flattener of hierarchical_json.py.                   *)
(*                                                                         *)
(* Texts are TLA+ strings; a character is a string of length one.          *)
(* Indentations and font sizes are whole points.  A text block is a        *)
(* function from field names to values (a Python dict), so that a missing  *)
(* field is a missing key.  HierarchyNode objects live in `heap`, a        *)
(* sequence of node records; a reference to a node is its index.           *)
(***************************************************************************)
EXTENDS Integers, Sequences, FiniteSets, TLC

VARIABLES
    current_hierarchy_stack, \* HierarchicalParser.current_hierarchy_stack
    next_node_id,            \* HierarchicalParser.next_node_id
    root_nodes,              \* parse_document's local root_nodes
    heap,                    \* every HierarchyNode created so far
    pc,                      \* where extract_hierarchical_content stands
    consumed,                \* the text blocks processed so far, in order
    last,                    \* what the most recent step did
    document_json,           \* result of convert_hierarchy_to_document_json
    flattened_json,          \* result of flatten_hierarchy_for_compatibility
    parsers,                 \* the fields of each HierarchicalParser object
    invocations,             \* the locals of each parse_document invocation
    results,                 \* process_all_documents' results dict
    batch                    \* where process_all_documents stands

vars == <<current_hierarchy_stack, next_node_id, root_nodes, heap, pc,
          consumed, last, document_json, flattened_json,
          parsers, invocations, results, batch>>

-----------------------------------------------------------------------------
(* Bounds of the model *)

MaxFrags == 4

-----------------------------------------------------------------------------
(* Configuration defaults, HierarchicalParser.__init__ *)

section_font_threshold == 14
heading_font_threshold == 12
indentation_tolerance == 5
base_left_margin == 72

-----------------------------------------------------------------------------
(* Characters and strings: what str.strip, str.lower and the re module do *)

Ch(s, i) == IF i >= 1 /\ i <= Len(s) THEN SubSeq(s, i, i) ELSE ""

From(s, i) == SubSeq(s, i, Len(s))

UpperAlphabet == "ABCDEFGHIJKLMNOPQRSTUVWXYZ"
LowerAlphabet == "abcdefghijklmnopqrstuvwxyz"
DecimalDigits == "0123456789"

UpperLetters == {Ch(UpperAlphabet, i) : i \in 1..Len(UpperAlphabet)}
LowerLetters == {Ch(LowerAlphabet, i) : i \in 1..Len(LowerAlphabet)}
Digits == {Ch(DecimalDigits, i) : i \in 1..Len(DecimalDigits)}
WhiteSpace == {" ", "\t", "\n"}
RomanUpper == {"I", "V", "X", "L", "C", "D", "M"}

\* str.upper and str.lower on one character
UpperOf == [c \in LowerLetters |->
              Ch(UpperAlphabet, CHOOSE i \in 1..Len(LowerAlphabet) : Ch(LowerAlphabet, i) = c)]
LowerOf == [c \in UpperLetters |->
              Ch(LowerAlphabet, CHOOSE i \in 1..Len(UpperAlphabet) : Ch(UpperAlphabet, i) = c)]

ToUpper(c) == IF c \in LowerLetters THEN UpperOf[c] ELSE c

ToLower(c) == IF c \in UpperLetters THEN LowerOf[c] ELSE c

RECURSIVE Lower(_)
Lower(s) == IF s = "" THEN "" ELSE ToLower(Ch(s, 1)) \o Lower(From(s, 2))

\* a character class under re.IGNORECASE
IgnoreCase(class) == {c \in UpperLetters \cup LowerLetters \cup Digits : ToUpper(c) \in class} \cup class

RomanNumeralOrDigit == IgnoreCase(RomanUpper \cup Digits)  \* [IVXLCDM\d] ignoring case
RomanNumeral == IgnoreCase(RomanUpper)                     \* [IVXLCDM] ignoring case
AnyLetter == IgnoreCase(UpperLetters)                      \* [A-Z] ignoring case

RECURSIVE SkipWhile(_, _, _)
\* the index after the longest run of characters of `class` starting at i
SkipWhile(s, i, class) ==
    IF i <= Len(s) /\ Ch(s, i) \in class THEN SkipWhile(s, i + 1, class) ELSE i

RECURSIVE SkipLine(_, _)
\* the index after a greedy `.*` starting at i (`.` matches all but a newline)
SkipLine(s, i) ==
    IF i <= Len(s) /\ Ch(s, i) # "\n" THEN SkipLine(s, i + 1) ELSE i

RECURSIVE RStrip(_)
RStrip(s) ==
    IF s # "" /\ Ch(s, Len(s)) \in WhiteSpace THEN RStrip(SubSeq(s, 1, Len(s) - 1)) ELSE s

Strip(s) == RStrip(From(s, SkipWhile(s, 1, WhiteSpace)))

\* `sub in s`
Contains(s, sub) == \E i \in 1..(Len(s) - Len(sub) + 1) : SubSeq(s, i, i + Len(sub) - 1) = sub

RECURSIVE Join(_, _)
\* sep.join(parts)
Join(sep, parts) ==
    IF parts = <<>> THEN ""
    ELSE IF Len(parts) = 1 THEN parts[1]
    ELSE parts[1] \o sep \o Join(sep, Tail(parts))

\* the index after keyword `kw` matched at i ignoring case, 0 when it does not match
Keyword(s, i, kw) ==
    IF \A k \in 1..Len(kw) : ToUpper(Ch(s, i + k - 1)) = Ch(kw, k) THEN i + Len(kw) ELSE 0

NoMatch == [ok |-> FALSE]
Groups(g1, g2) == [ok |-> TRUE, g1 |-> g1, g2 |-> g2]

\* the common tail  \s*[:.]?\s*(.*)  from index i, with group 1 already known
TitleTail(s, i, g1) ==
    LET a == SkipWhile(s, i, WhiteSpace)
        b == IF Ch(s, a) \in {":", "."} THEN a + 1 ELSE a
        c == SkipWhile(s, b, WhiteSpace)
    IN  Groups(g1, SubSeq(s, c, SkipLine(s, c) - 1))

\* ^\s*KEYWORD\s+([IVXLCDM\d]+)\s*[:.]?\s*(.*)   with re.IGNORECASE
KeywordNumeral(s, kw) ==
    LET a == SkipWhile(s, 1, WhiteSpace)
        b == Keyword(s, a, kw)
        c == SkipWhile(s, b, WhiteSpace)
        d == SkipWhile(s, c, RomanNumeralOrDigit)
    IN  IF b = 0 \/ c = b \/ d = c THEN NoMatch
        ELSE TitleTail(s, d, SubSeq(s, c, d - 1))

\* ^\s*([IVXLCDM]{1,4})\.\s+(.+)   with re.IGNORECASE
RomanPeriod(s) ==
    LET a == SkipWhile(s, 1, WhiteSpace)
        b == SkipWhile(s, a, RomanNumeral)
        c == SkipWhile(s, b + 1, WhiteSpace)
        d == SkipLine(s, c)
    IN  IF b = a \/ b - a > 4 \/ Ch(s, b) # "." \/ c = b + 1 THEN NoMatch
        ELSE IF d > c THEN Groups(SubSeq(s, a, b - 1), SubSeq(s, c, d - 1))
        \* (.+) may still take the last white space the greedy \s+ gives back
        ELSE IF c - 1 > b + 1 /\ Ch(s, c - 1) # "\n"
             THEN Groups(SubSeq(s, a, b - 1), SubSeq(s, c - 1, c - 1))
        ELSE NoMatch

\* ^\s*KEYWORD\s*[#]?\s*(\d+|[IVXLCDM]+)\s*[:.]?\s*(.*)   with re.IGNORECASE;
\* `words` are the words of the keyword, separated by \s+
RECURSIVE KeywordWords(_, _, _)
KeywordWords(s, i, words) ==
    LET b == Keyword(s, i, Head(words))
        c == SkipWhile(s, b, WhiteSpace)
    IN  IF b = 0 THEN 0
        ELSE IF Len(words) = 1 THEN b
        ELSE IF c = b THEN 0
        ELSE KeywordWords(s, c, Tail(words))

LoaNumeral(s, words) ==
    LET a == SkipWhile(s, 1, WhiteSpace)
        b == KeywordWords(s, a, words)
        c == SkipWhile(s, b, WhiteSpace)
        d == IF Ch(s, c) = "#" THEN c + 1 ELSE c
        e == SkipWhile(s, d, WhiteSpace)
        f == IF Ch(s, e) \in Digits THEN SkipWhile(s, e, Digits)
             ELSE SkipWhile(s, e, RomanNumeral)
    IN  IF b = 0 \/ f = e THEN NoMatch
        ELSE TitleTail(s, f, SubSeq(s, e, f - 1))

\* ^\s*APPENDIX\s+([A-Z]+|\d+)\s*[:.]?\s*(.*)   with re.IGNORECASE
AppendixHeader(s) ==
    LET a == SkipWhile(s, 1, WhiteSpace)
        b == Keyword(s, a, "APPENDIX")
        c == SkipWhile(s, b, WhiteSpace)
        d == IF Ch(s, c) \in AnyLetter THEN SkipWhile(s, c, AnyLetter)
             ELSE SkipWhile(s, c, Digits)
    IN  IF b = 0 \/ c = b \/ d = c THEN NoMatch
        ELSE TitleTail(s, d, SubSeq(s, c, d - 1))

\* ^\s*(class)\s*[.)]\s*(.*)   case-sensitive; class is one character, or \d+
ItemDot(s, class, many) ==
    LET a == SkipWhile(s, 1, WhiteSpace)
        b == IF many THEN SkipWhile(s, a, class)
             ELSE IF Ch(s, a) \in class THEN a + 1 ELSE a
        c == SkipWhile(s, b, WhiteSpace)
        d == SkipWhile(s, c + 1, WhiteSpace)
    IN  IF b = a \/ Ch(s, c) \notin {".", ")"} THEN NoMatch
        ELSE Groups(SubSeq(s, a, b - 1), SubSeq(s, d, SkipLine(s, d) - 1))

\* ^\s*\((class)\)\s*(.*)   case-sensitive
ItemParen(s, class, many) ==
    LET a == SkipWhile(s, 1, WhiteSpace)
        b == IF many THEN SkipWhile(s, a + 1, class)
             ELSE IF Ch(s, a + 1) \in class THEN a + 2 ELSE a + 1
        d == SkipWhile(s, b + 1, WhiteSpace)
    IN  IF Ch(s, a) # "(" \/ b = a + 1 \/ Ch(s, b) # ")" THEN NoMatch
        ELSE Groups(SubSeq(s, a + 1, b - 1), SubSeq(s, d, SkipLine(s, d) - 1))

-----------------------------------------------------------------------------
(* Text blocks as utils_layout.normalize_text_block_info and                *)
(* extract_page_text_blocks build them, and the blocks the model feeds in   *)

TextBlock(text, page_number, indentation_level, avg_font_size, is_bold) ==
    [text |-> text,
     bbox |-> <<indentation_level, 100, 540, 112>>,
     indentation_level |-> indentation_level,
     avg_font_size |-> avg_font_size,
     dominant_font_name |-> "Helvetica",
     is_bold |-> is_bold,
     is_italic |-> FALSE,
     page_number |-> page_number]

\* a dict that lacks a field
Without(block, key) == [k \in DOMAIN block \ {key} |-> block[k]]

SectionPay == TextBlock("SECTION 1: Pay", 1, 72, 12, TRUE)
CapitalA == TextBlock("A. Hourly wage", 1, 90, 10, FALSE)
Paragraph == TextBlock("Employees are paid hourly.", 1, 90, 10, FALSE)
CapitalB == TextBlock("B. Overtime", 2, 90, 10, FALSE)
NumberOne == TextBlock("1. Base rate", 2, 108, 10, FALSE)
LowercaseA == TextBlock("a. Night shift", 2, 126, 10, FALSE)
SectionHours == TextBlock("SECTION 2: Hours", 3, 72, 14, FALSE)
NoPageBlock == Without(TextBlock("Rates are reviewed yearly.", 3, 90, 10, FALSE), "page_number")
NoFontNameBlock == Without(TextBlock("C) Premium pay", 3, 90, 10, FALSE), "dominant_font_name")

CapitalE == TextBlock("(E) Holidays", 2, 120, 10, FALSE)

\* a section header that starts at the left edge of the page
SectionAtZero == TextBlock("SECTION 3: Leave", 1, 0, 12, FALSE)

\* number items just at and just beyond the tolerance of a parent at 90
NumberAt95 == TextBlock("1. Base rate", 1, 95, 10, FALSE)
NumberAt96 == TextBlock("1. Base rate", 1, 96, 10, FALSE)

\* section texts on both sides of each of the three conditions of the gate
SectionGateProbes ==
    {TextBlock(text, 1, indentation, font_size, is_bold) :
        text \in {"ARTICLE 4: Leave", "I. Introduction"}, indentation \in {91, 92},
        font_size \in {13, 14}, is_bold \in BOOLEAN}

\* every lowercase letter as "a. item", "a) item" and "(a) item"
LowercaseTexts ==
    {letter \o "." \o " item" : letter \in LowerLetters}
    \cup {letter \o ")" \o " item" : letter \in LowerLetters}
    \cup {"(" \o letter \o ")" \o " item" : letter \in LowerLetters}

LowercaseProbes ==
    {TextBlock(text, 1, indentation, font_size, is_bold) :
        text \in LowercaseTexts, indentation \in {72, 126},
        font_size \in {10, 14}, is_bold \in BOOLEAN}

\* texts that more than one rule, or no rule, accepts
CascadeProbes ==
    {TextBlock("LOA 5: Uniforms", 1, 120, 10, FALSE),
     TextBlock("APPENDIX B. Pay scales", 1, 72, 10, FALSE),
     TextBlock("C. Cabin crew", 1, 96, 10, TRUE),
     TextBlock("(C) Cabin crew", 1, 96, 10, FALSE),
     TextBlock("7) Per diem", 1, 126, 10, FALSE),
     TextBlock("Employees are paid hourly.", 1, 126, 14, TRUE)}

\* the blocks that open the nodes a probe is classified against
ContextBlocks == {SectionPay, CapitalA, SectionAtZero}

ProbeBlocks == {NumberAt95, NumberAt96} \cup SectionGateProbes \cup LowercaseProbes \cup CascadeProbes

\* what a caller of parse_document may pass, blocks that lack a field included
Blocks == {SectionPay, CapitalA, Paragraph, CapitalB, NumberOne, LowercaseA, SectionHours,
           NoPageBlock, NoFontNameBlock}

\* what extract_page_text_blocks passes: every field is there
LayoutBlocks == {SectionPay, CapitalA, Paragraph, NumberOne, CapitalE, SectionHours}

\* a document whose outline goes four levels deep
OutlineBlocks == {SectionPay, CapitalA, NumberOne, LowercaseA, Paragraph, SectionHours}

-----------------------------------------------------------------------------
(* The patterns of the five header kinds, in the order the code tries them *)

SectionPatterns(text) ==
    <<KeywordNumeral(text, "SECTION"), KeywordNumeral(text, "ARTICLE"),
      KeywordNumeral(text, "PART"), RomanPeriod(text)>>

LoaPatterns(text) ==
    <<LoaNumeral(text, <<"LETTER", "OF", "AGREEMENT">>), LoaNumeral(text, <<"LOA">>),
      AppendixHeader(text)>>

CapitalPatterns(text) == <<ItemDot(text, UpperLetters, FALSE), ItemParen(text, UpperLetters, FALSE)>>

NumberPatterns(text) == <<ItemDot(text, Digits, TRUE), ItemParen(text, Digits, TRUE)>>

LowercasePatterns(text) == <<ItemDot(text, LowerLetters, FALSE), ItemParen(text, LowerLetters, FALSE)>>

AllPatterns(text) ==
    [section |-> SectionPatterns(text), loa |-> LoaPatterns(text),
     capital |-> CapitalPatterns(text), number |-> NumberPatterns(text),
     lowercase |-> LowercasePatterns(text)]

\* re.match on the texts of the model's blocks, computed once
KnownTexts ==
    {Strip(block["text"]) :
        block \in {b \in Blocks \cup LayoutBlocks \cup OutlineBlocks \cup ContextBlocks \cup ProbeBlocks : "text" \in DOMAIN b}}
KnownMatches == [text \in KnownTexts |-> AllPatterns(text)]

Matches(text) == IF text \in KnownTexts THEN KnownMatches[text] ELSE AllPatterns(text)

-----------------------------------------------------------------------------
(* Header classifier: HierarchicalParser._is_*_header and _identify_header *)

\* `for pattern in patterns: match = ...; if match: if gate: return groups`
RECURSIVE FirstAccepted(_, _)
FirstAccepted(matches, gate) ==
    IF matches = <<>> THEN NoMatch
    ELSE IF Head(matches).ok /\ gate
         THEN Groups(Head(matches).g1, Strip(Head(matches).g2))
    ELSE FirstAccepted(Tail(matches), gate)

_is_section_header_inclusive(text, font_size, is_bold, indentation) ==
    FirstAccepted(Matches(text).section,
                  \/ indentation <= base_left_margin + 20
                  \/ font_size >= section_font_threshold
                  \/ is_bold)

_is_section_header(text, font_size, is_bold, indentation) ==
    FirstAccepted(Matches(text).section,
                  \/ indentation < base_left_margin + 20
                  \/ font_size >= section_font_threshold
                  \/ is_bold)

_is_loa_header(text, font_size, is_bold, indentation) ==
    FirstAccepted(Matches(text).loa,
                  \/ indentation < base_left_margin + 20
                  \/ font_size >= heading_font_threshold
                  \/ is_bold)

_is_capital_letter_header(text, indentation, parent_indent) ==
    FirstAccepted(Matches(text).capital,
                  indentation > parent_indent + indentation_tolerance)

_is_number_header_inclusive(text, indentation, parent_indent) ==
    FirstAccepted(Matches(text).number,
                  indentation >= parent_indent + indentation_tolerance)

_is_number_header(text, indentation, parent_indent) ==
    FirstAccepted(Matches(text).number,
                  indentation > parent_indent + indentation_tolerance)

\* the pattern alone decides
_is_lowercase_letter_header_ungated(text, indentation, parent_indent) ==
    FirstAccepted(Matches(text).lowercase, TRUE)

_is_lowercase_letter_header(text, indentation, parent_indent) ==
    FirstAccepted(Matches(text).lowercase,
                  indentation > parent_indent + indentation_tolerance)

Top(stack) == stack[Len(stack)]

\* `indentation_header or base_left_margin`: an indentation of 0 is falsy (a node
\* the parser created never has None there)
_get_current_parent_indentation(stack, nodes) ==
    IF stack # <<>>
    THEN IF nodes[Top(stack)].indentation_header = 0
         THEN base_left_margin
         ELSE nodes[Top(stack)].indentation_header
    ELSE base_left_margin

Header(type, m) == [is_header |-> TRUE, header_type |-> type, identifier |-> m.g1, title |-> m.g2]
NotAHeader == [is_header |-> FALSE]

IdentifyFields == {"text", "avg_font_size", "is_bold", "indentation_level"}

\* `match = self._is_x_header(...); if match: return (kind, match[0], match[1])`,
\* and `otherwise` is what the code goes on to when the match is None
Classified(header_type, match, otherwise) ==
    IF match.ok THEN Header(header_type, match) ELSE otherwise

_identify_header_items_first(stack, nodes, block) ==
    LET text == Strip(block["text"])
        font_size == block["avg_font_size"]
        is_bold == block["is_bold"]
        indentation == block["indentation_level"]
        parent_indent == _get_current_parent_indentation(stack, nodes)
    IN  Classified("capital_letter_item",
                   _is_capital_letter_header(text, indentation, parent_indent),
        Classified("number_item", _is_number_header(text, indentation, parent_indent),
        Classified("lowercase_letter_item",
                   _is_lowercase_letter_header(text, indentation, parent_indent),
        Classified("section", _is_section_header(text, font_size, is_bold, indentation),
        Classified("loa", _is_loa_header(text, font_size, is_bold, indentation),
        NotAHeader)))))

\* NotAHeader is the None the code returns; the caller checks IdentifyFields first
_identify_header(stack, nodes, block) ==
    LET text == Strip(block["text"])
        font_size == block["avg_font_size"]
        is_bold == block["is_bold"]
        indentation == block["indentation_level"]
        parent_indent == _get_current_parent_indentation(stack, nodes)
    IN  Classified("section", _is_section_header(text, font_size, is_bold, indentation),
        Classified("loa", _is_loa_header(text, font_size, is_bold, indentation),
        Classified("capital_letter_item",
                   _is_capital_letter_header(text, indentation, parent_indent),
        Classified("number_item", _is_number_header(text, indentation, parent_indent),
        Classified("lowercase_letter_item",
                   _is_lowercase_letter_header(text, indentation, parent_indent),
        NotAHeader)))))

-----------------------------------------------------------------------------
(* Hierarchy builder: the stack machine of HierarchicalParser *)

\* a letter of agreement one level below a section
hierarchy_levels_loa_nested(type) ==
    CASE type = "section" -> 1
      [] type \in {"loa", "capital_letter_item"} -> 2
      [] type = "number_item" -> 3
      [] type = "lowercase_letter_item" -> 4
      [] OTHER -> 5

hierarchy_levels(type) ==
    CASE type \in {"section", "loa"} -> 1
      [] type = "capital_letter_item" -> 2
      [] type = "number_item" -> 3
      [] type = "lowercase_letter_item" -> 4
      [] OTHER -> 5

\* no node is closed
_close_nodes_for_level_none(stack, nodes, new_header_type) == stack

RECURSIVE _close_nodes_for_level_strict(_, _, _)
_close_nodes_for_level_strict(stack, nodes, new_header_type) ==
    IF stack # <<>> /\ hierarchy_levels(nodes[Top(stack)].type) > hierarchy_levels(new_header_type)
    THEN _close_nodes_for_level_strict(SubSeq(stack, 1, Len(stack) - 1), nodes, new_header_type)
    ELSE stack

_close_nodes_for_level_once(stack, nodes, new_header_type) ==
    IF stack # <<>> /\ hierarchy_levels(nodes[Top(stack)].type) >= hierarchy_levels(new_header_type)
    THEN SubSeq(stack, 1, Len(stack) - 1)
    ELSE stack

RECURSIVE _close_nodes_for_level(_, _, _)
\* the stack after popping the nodes at the same or a lower level
_close_nodes_for_level(stack, nodes, new_header_type) ==
    IF stack # <<>> /\ hierarchy_levels(nodes[Top(stack)].type) >= hierarchy_levels(new_header_type)
    THEN _close_nodes_for_level(SubSeq(stack, 1, Len(stack) - 1), nodes, new_header_type)
    ELSE stack

RECURSIVE Decimal(_)
Decimal(n) == IF n < 10 THEN Ch(DecimalDigits, n + 1)
              ELSE Decimal(n \div 10) \o Ch(DecimalDigits, (n % 10) + 1)

RECURSIVE ZeroPad(_, _)
ZeroPad(s, width) == IF Len(s) >= width THEN s ELSE ZeroPad("0" \o s, width)

\* f"node_{n:06d}"
NodeIdFormat(n) == "node_" \o ZeroPad(Decimal(n), 6)

_generate_node_id_stuck(n) == [node_id |-> NodeIdFormat(n), next_node_id |-> n]

\* the id and the counter after the call
_generate_node_id(n) == [node_id |-> NodeIdFormat(n), next_node_id |-> n + 1]

\* The parser state the handlers work on, and a handler's outcome: the state it
\* leaves, whether it raised, and the _handle_content calls it made
State(stack, next, roots, nodes) ==
    [stack |-> stack, next_node_id |-> next, roots |-> roots, nodes |-> nodes]

Returned(st, calls) == [st |-> st, raised |-> FALSE, calls |-> calls]
Raised(st, calls) == [st |-> st, raised |-> TRUE, calls |-> calls]

HeaderFields == {"page_number", "avg_font_size", "dominant_font_name", "is_bold",
                 "is_italic", "indentation_level"}

HierarchyNode(id, type, identifier, title, block) ==
    [id |-> id,
     type |-> type,
     identifier_text |-> identifier,
     title_text |-> title,
     content_text_blocks |-> <<>>,
     page_number_start |-> block["page_number"],
     page_number_end |-> block["page_number"],
     children |-> <<>>,
     font_characteristics_header |->
        [font_size |-> block["avg_font_size"],
         font_name |-> block["dominant_font_name"],
         is_bold |-> block["is_bold"],
         is_italic |-> block["is_italic"]],
     indentation_header |-> block["indentation_level"]]

\* the new node is appended to the roots whether it has a parent or not
_handle_header_rooted(st, block, header_type, identifier, title) ==
    LET stack == _close_nodes_for_level(st.stack, st.nodes, header_type)
        gen == _generate_node_id(st.next_node_id)
        ref == Len(st.nodes) + 1
        created == Append(st.nodes, HierarchyNode(gen.node_id, header_type, identifier, title, block))
    IN  IF ~(HeaderFields \subseteq DOMAIN block)
        THEN Raised(State(stack, gen.next_node_id, st.roots, st.nodes), <<>>)
        ELSE IF stack # <<>>
        THEN Returned(State(Append(stack, ref), gen.next_node_id, Append(st.roots, ref),
                            [created EXCEPT ![Top(stack)].children = Append(@, ref)]), <<>>)
        ELSE Returned(State(Append(stack, ref), gen.next_node_id, Append(st.roots, ref), created),
                      <<>>)

\* the new node is attached to the node that was on top before the closing
_handle_header_unclosed(st, block, header_type, identifier, title) ==
    LET stack == _close_nodes_for_level(st.stack, st.nodes, header_type)
        gen == _generate_node_id(st.next_node_id)
        ref == Len(st.nodes) + 1
        created == Append(st.nodes, HierarchyNode(gen.node_id, header_type, identifier, title, block))
    IN  IF ~(HeaderFields \subseteq DOMAIN block)
        THEN Raised(State(stack, gen.next_node_id, st.roots, st.nodes), <<>>)
        ELSE IF st.stack # <<>>
        THEN Returned(State(Append(stack, ref), gen.next_node_id, st.roots,
                            [created EXCEPT ![Top(st.stack)].children = Append(@, ref)]), <<>>)
        ELSE Returned(State(Append(stack, ref), gen.next_node_id, Append(st.roots, ref), created),
                      <<>>)

_handle_header(st, block, header_type, identifier, title) ==
    LET stack == _close_nodes_for_level(st.stack, st.nodes, header_type)
        gen == _generate_node_id(st.next_node_id)
        ref == Len(st.nodes) + 1
        created == Append(st.nodes, HierarchyNode(gen.node_id, header_type, identifier, title, block))
    IN  IF ~(HeaderFields \subseteq DOMAIN block)
        \* KeyError while the constructor's arguments are evaluated: the nodes
        \* are closed and the id is taken, no node exists
        THEN Raised(State(stack, gen.next_node_id, st.roots, st.nodes), <<>>)
        ELSE IF stack # <<>>
        THEN Returned(State(Append(stack, ref), gen.next_node_id, st.roots,
                            [created EXCEPT ![Top(stack)].children = Append(@, ref)]), <<>>)
        ELSE Returned(State(Append(stack, ref), gen.next_node_id, Append(st.roots, ref), created),
                      <<>>)

\* the block is appended to no node
_handle_content_dropped(st, block) ==
    IF "page_number" \in DOMAIN block
    THEN Returned(st, <<[pre |-> st, post |-> st, block |-> block]>>)
    ELSE Raised(st, <<[pre |-> st, post |-> st, block |-> block]>>)

ContentTarget(stack) == stack[1]

_handle_content_to_bottom(st, block) ==
    LET appended == [st EXCEPT !.nodes[ContentTarget(st.stack)].content_text_blocks = Append(@, block)]
        call(post) == <<[pre |-> st, post |-> post, block |-> block]>>
    IN  IF st.stack # <<>>
        THEN IF "page_number" \in DOMAIN block
             THEN LET post == [appended EXCEPT !.nodes[ContentTarget(st.stack)].page_number_end =
                                                   block["page_number"]]
                  IN  Returned(post, call(post))
             ELSE Raised(appended, call(appended))
        ELSE IF "page_number" \in DOMAIN block
             THEN Returned(st, call(st))
             ELSE Raised(st, call(st))

_handle_content(st, block) ==
    LET appended == [st EXCEPT !.nodes[Top(st.stack)].content_text_blocks = Append(@, block)]
        call(post) == <<[pre |-> st, post |-> post, block |-> block]>>
    IN  IF st.stack # <<>>
        THEN IF "page_number" \in DOMAIN block
             THEN LET post == [appended EXCEPT !.nodes[Top(st.stack)].page_number_end =
                                                   block["page_number"]]
                  IN  Returned(post, call(post))
             \* the block is appended, then block["page_number"] raises KeyError
             ELSE Raised(appended, call(appended))
        \* the warning's message reads block['page_number']
        ELSE IF "page_number" \in DOMAIN block
             THEN Returned(st, call(st))
             ELSE Raised(st, call(st))

\* `if header_info: self._handle_header(...) else: self._handle_content(block)`
HandleIdentified(st, block, header_info) ==
    IF header_info.is_header
    THEN _handle_header(st, block, header_info.header_type,
                        header_info.identifier, header_info.title)
    ELSE _handle_content(st, block)

\* the body of the try statement of _process_text_block
TryBlock(st, block) ==
    IF ~(IdentifyFields \subseteq DOMAIN block) THEN Raised(st, <<>>)
    ELSE HandleIdentified(st, block, _identify_header(st.stack, st.nodes, block))

\* `except Exception: self._handle_content(block)`, on the state the try
\* statement left; an exception raised here leaves _process_text_block
ExceptHandler(tried, block, fallback) ==
    IF tried.raised THEN [fallback EXCEPT !.calls = tried.calls \o @] ELSE tried

FallbackContent(tried, block) == ExceptHandler(tried, block, _handle_content(tried.st, block))

_process_text_block(st, block) == FallbackContent(TryBlock(st, block), block)

-----------------------------------------------------------------------------
(* Tree serializer: hierarchical_json.py *)

\* dict.get(key, default)
Get(d, key, default) == IF key \in DOMAIN d THEN d[key] ELSE default

EmptyDict == [k \in {} |-> TRUE]

\* the texts of the blocks that have one, in order
RECURSIVE ContentParts(_)
ContentParts(blocks) ==
    IF blocks = <<>> THEN <<>>
    ELSE IF "text" \in DOMAIN Head(blocks)
         THEN <<Head(blocks)["text"]>> \o ContentParts(Tail(blocks))
    ELSE ContentParts(Tail(blocks))

ContentBlockMetadata(block) ==
    [page_number |-> Get(block, "page_number", 1),
     bbox |-> Get(block, "bbox", <<0, 0, 0, 0>>),
     font_size |-> Get(block, "avg_font_size", 10),
     font_name |-> Get(block, "dominant_font_name", ""),
     is_bold |-> Get(block, "is_bold", FALSE),
     is_italic |-> Get(block, "is_italic", FALSE)]

RECURSIVE Reversed(_)
Reversed(seq) == IF seq = <<>> THEN <<>> ELSE Append(Reversed(Tail(seq)), Head(seq))

RECURSIVE convert_node_to_json_reversed(_, _)
convert_node_to_json_reversed(nodes, ref) ==
    LET node == nodes[ref]
    IN  [id |-> node.id,
         type |-> node.type,
         identifier_text |-> node.identifier_text,
         title_text |-> node.title_text,
         content_text |-> Strip(Join(" ", Reversed(ContentParts(node.content_text_blocks)))),
         page_number_start |-> node.page_number_start,
         page_number_end |-> node.page_number_end,
         children |-> [i \in 1..Len(node.children) |->
                          convert_node_to_json_reversed(nodes, node.children[i])],
         metadata |-> [font_characteristics |-> node.font_characteristics_header,
                       indentation |-> node.indentation_header]]

RECURSIVE convert_node_to_json(_, _)
\* the dict for the node `ref` of `nodes`; a node the parser made always has a
\* header font and a header indentation, so "metadata" is always there
convert_node_to_json(nodes, ref) ==
    LET node == nodes[ref]
        content_text == IF node.content_text_blocks # <<>>
                        THEN Strip(Join(" ", ContentParts(node.content_text_blocks)))
                        ELSE ""
        children_json == [i \in 1..Len(node.children) |->
                             convert_node_to_json(nodes, node.children[i])]
        metadata == [font_characteristics |-> node.font_characteristics_header,
                     indentation |-> node.indentation_header]
                    @@ (IF node.content_text_blocks # <<>>
                        THEN [content_blocks |->
                                 [i \in 1..Len(node.content_text_blocks) |->
                                     ContentBlockMetadata(node.content_text_blocks[i])]]
                        ELSE EmptyDict)
    IN  [id |-> node.id,
         type |-> node.type,
         identifier_text |-> node.identifier_text,
         title_text |-> node.title_text,
         content_text |-> content_text,
         page_number_start |-> node.page_number_start,
         page_number_end |-> node.page_number_end,
         children |-> children_json,
         metadata |-> metadata]

\* `if original_metadata:` an empty dict, like None, adds no document_metadata
convert_hierarchy_to_document_json(nodes, hierarchy_nodes, document_id, document_title, original_metadata) ==
    LET sections_json == [i \in 1..Len(hierarchy_nodes) |->
                             convert_node_to_json(nodes, hierarchy_nodes[i])]
    IN  [id |-> document_id, title |-> document_title, sections |-> sections_json]
        @@ (IF original_metadata # EmptyDict
            THEN [document_metadata |-> original_metadata]
            ELSE EmptyDict)
        @@ [processing_info |-> [parser_version |-> "hierarchical_v1.0",
                                 total_sections |-> Len(sections_json),
                                 parsing_method |-> "hierarchical_structure"]]

_map_hierarchical_type_to_section_type(hierarchical_type) ==
    CASE hierarchical_type \in {"section", "loa", "capital_letter_item"} -> "heading"
      [] hierarchical_type \in {"number_item", "lowercase_letter_item"} -> "list"
      [] OTHER -> "paragraph"

_create_section_content(node) ==
    LET title_part == IF node.title_text # ""
                      THEN IF node.identifier_text # ""
                           THEN <<node.identifier_text \o ". " \o node.title_text>>
                           ELSE <<node.title_text>>
                      ELSE IF node.identifier_text # "" THEN <<node.identifier_text>>
                      ELSE <<>>
        text_part == IF node.content_text # "" THEN <<node.content_text>> ELSE <<>>
    IN  Join("\n", title_part \o text_part)

_determine_category(node) ==
    LET content == Lower(node.content_text \o " " \o node.title_text)
        any(terms) == \E term \in terms : Contains(content, term)
    IN  IF any({"schedule", "duty", "time", "hours", "shift"}) THEN "scheduling"
        ELSE IF any({"pay", "wage", "salary", "compensation"}) THEN "pay"
        ELSE IF any({"benefit", "insurance", "vacation", "sick"}) THEN "benefits"
        ELSE IF any({"rule", "procedure", "conduct", "discipline"}) THEN "work_rules"
        ELSE "general"

_determine_importance_high(node, level) == "high"

_determine_importance(node, level) ==
    IF level = 0 THEN "high" ELSE IF level = 1 THEN "medium" ELSE "low"

_create_section_metadata(node, level, parent_path) ==
    [category |-> _determine_category(node),
     importance |-> _determine_importance(node, level),
     glossaryTerms |-> <<>>,
     affects |-> <<"all_flight_attendants">>,
     hierarchy_level |-> level,
     hierarchy_type |-> node.type,
     parent_path |-> parent_path]

_build_path_reversed(parent_path, identifier, title) ==
    LET current == IF identifier # "" THEN identifier
                   ELSE IF title # "" THEN title ELSE "unknown"
    IN  IF parent_path # "" THEN current \o " > " \o parent_path ELSE current

\* `identifier or title or "unknown"`
_build_path(parent_path, identifier, title) ==
    LET current == IF identifier # "" THEN identifier
                   ELSE IF title # "" THEN title ELSE "unknown"
    IN  IF parent_path # "" THEN parent_path \o " > " \o current ELSE current

FlatSection(node, level, parent_path) ==
    [id |-> node.id,
     type |-> _map_hierarchical_type_to_section_type(node.type),
     content |-> _create_section_content(node),
     originalPage |-> node.page_number_start,
     metadata |-> _create_section_metadata(node, level, parent_path),
     hierarchy |-> [level |-> level,
                    type |-> node.type,
                    identifier |-> node.identifier_text,
                    title |-> node.title_text,
                    parent_path |-> parent_path,
                    page_range |-> <<node.page_number_start, node.page_number_end>>,
                    has_children |-> Len(node.children) > 0]]

RECURSIVE flatten_node_children_first(_, _, _)
RECURSIVE FlattenAllChildrenFirst(_, _, _)
flatten_node_children_first(node, level, parent_path) ==
    FlattenAllChildrenFirst(node.children, level + 1,
                            _build_path(parent_path, node.identifier_text, node.title_text))
    \o <<FlatSection(node, level, parent_path)>>

FlattenAllChildrenFirst(nodes, level, parent_path) ==
    IF nodes = <<>> THEN <<>>
    ELSE flatten_node_children_first(Head(nodes), level, parent_path)
         \o FlattenAllChildrenFirst(Tail(nodes), level, parent_path)

RECURSIVE flatten_node(_, _, _)
RECURSIVE FlattenAll(_, _, _)
\* what flatten_node appends to flattened_sections: the node's section, then
\* its children's, each child flattened in turn
flatten_node(node, level, parent_path) ==
    <<FlatSection(node, level, parent_path)>>
    \o FlattenAll(node.children, level + 1,
                  _build_path(parent_path, node.identifier_text, node.title_text))

\* `for child in children: flatten_node(child, level, path)`
FlattenAll(nodes, level, parent_path) ==
    IF nodes = <<>> THEN <<>>
    ELSE flatten_node(Head(nodes), level, parent_path)
         \o FlattenAll(Tail(nodes), level, parent_path)

\* the processing_info dict is shared with the input document, so setting
\* "flattened" on it changes the input too: DocumentAfterFlatten
flatten_hierarchy_for_compatibility(doc) ==
    [id |-> doc.id,
     title |-> doc.title,
     sections |-> FlattenAll(doc.sections, 0, "")]
    @@ (IF "document_metadata" \in DOMAIN doc
        THEN [document_metadata |-> doc.document_metadata]
        ELSE EmptyDict)
    @@ (IF "processing_info" \in DOMAIN doc
        THEN [processing_info |-> doc.processing_info @@ [flattened |-> TRUE]]
        ELSE EmptyDict)

DocumentAfterFlatten(doc) ==
    IF "processing_info" \in DOMAIN doc
    THEN [doc EXCEPT !.processing_info = @ @@ [flattened |-> TRUE]]
    ELSE doc

-----------------------------------------------------------------------------
(* The run of extract_hierarchical_content: parse, convert, flatten *)

NoDocument == [sections |-> <<>>]
NoStep == [op |-> "none", raised |-> FALSE, calls |-> <<>>]

\* a HierarchicalParser as __init__ leaves it
NewParser == [current_hierarchy_stack |-> <<>>, next_node_id |-> 1]

\* a parse_document invocation on parser object `self`, before its first line
Invoked(self) == [self |-> self, pc |-> "invoked", root_nodes |-> <<>>, consumed |-> <<>>]

\* two parser objects and two invocations; `second` is the object of the second
ThreadsInit(second) ==
    /\ parsers = <<NewParser, NewParser>>
    /\ invocations = <<Invoked(1), Invoked(second)>>

\* process_all_documents before its loop
BatchInit ==
    /\ results = EmptyDict
    /\ batch = [pc |-> "loop", index |-> 0, step |-> "none", attempts |-> <<>>, log |-> <<>>]

ParserState == State(current_hierarchy_stack, next_node_id, root_nodes, heap)

\* parse_document up to its loop: a fresh stack, counter and root list
Init ==
    /\ current_hierarchy_stack = <<>>
    /\ next_node_id = 1
    /\ root_nodes = <<>>
    /\ heap = <<>>
    /\ pc = "parsing"
    /\ consumed = <<>>
    /\ last = NoStep
    /\ document_json = NoDocument
    /\ flattened_json = NoDocument
    /\ ThreadsInit(2)
    /\ BatchInit

\* the parser's fields and parse_document's root_nodes as a handler left them
Leave(done) ==
    /\ current_hierarchy_stack' = done.st.stack
    /\ next_node_id' = done.st.next_node_id
    /\ root_nodes' = done.st.roots
    /\ heap' = done.st.nodes
    /\ pc' = IF done.raised THEN "raised" ELSE "parsing"
    /\ last' = [op |-> "block", raised |-> done.raised, calls |-> done.calls]

\* one turn of parse_document's loop: _process_text_block(block, root_nodes);
\* an exception that leaves _process_text_block leaves parse_document
ProcessTextBlock(block) ==
    /\ pc = "parsing"
    /\ Len(consumed) < MaxFrags
    /\ Leave(_process_text_block(ParserState, block))
    /\ consumed' = Append(consumed, block)
    /\ UNCHANGED <<document_json, flattened_json, parsers, invocations, results, batch>>

\* the end of parse_document: _close_all_nodes, return root_nodes
CloseAllNodes ==
    /\ pc = "parsing"
    /\ current_hierarchy_stack' = <<>>
    /\ pc' = "parsed"
    /\ last' = [op |-> "close", raised |-> FALSE, calls |-> <<>>]
    /\ UNCHANGED <<next_node_id, root_nodes, heap, consumed, document_json, flattened_json,
                   parsers, invocations, results, batch>>

Next ==
    \/ \E block \in Blocks : ProcessTextBlock(block)
    \/ CloseAllNodes

\* parse_document on any blocks
Spec == Init /\ [][Next]_vars

\* extract_hierarchical_content, step 4; PDF metadata may be there or not
ConvertHierarchyToDocumentJson(original_metadata) ==
    /\ pc = "parsed"
    /\ document_json' = convert_hierarchy_to_document_json(heap, root_nodes, "contract",
                                                           "Contract", original_metadata)
    /\ pc' = "converted"
    /\ last' = [op |-> "convert", raised |-> FALSE, calls |-> <<>>]
    /\ UNCHANGED <<current_hierarchy_stack, next_node_id, root_nodes, heap, consumed,
                   flattened_json, parsers, invocations, results, batch>>

\* extract_hierarchical_content, step 5
FlattenHierarchyForCompatibility ==
    /\ pc = "converted"
    /\ flattened_json' = flatten_hierarchy_for_compatibility(document_json)
    /\ document_json' = DocumentAfterFlatten(document_json)
    /\ pc' = "flattened"
    /\ last' = [op |-> "flatten", raised |-> FALSE, calls |-> <<>>]
    /\ UNCHANGED <<current_hierarchy_stack, next_node_id, root_nodes, heap, consumed,
                   parsers, invocations, results, batch>>

PdfMetadata == {EmptyDict, [title |-> "Agreement", page_count |-> 3]}

NextExtract ==
    \/ \E block \in LayoutBlocks : ProcessTextBlock(block)
    \/ CloseAllNodes
    \/ \E original_metadata \in PdfMetadata : ConvertHierarchyToDocumentJson(original_metadata)
    \/ FlattenHierarchyForCompatibility

\* extract_hierarchical_content: parse the blocks of the layout extraction,
\* convert, flatten
SpecExtract == Init /\ [][NextExtract]_vars

NextOutline ==
    \/ \E block \in OutlineBlocks : ProcessTextBlock(block)
    \/ CloseAllNodes
    \/ \E original_metadata \in PdfMetadata : ConvertHierarchyToDocumentJson(original_metadata)
    \/ FlattenHierarchyForCompatibility

\* extract_hierarchical_content on the blocks of a four-level outline
SpecOutline == Init /\ [][NextOutline]_vars

-----------------------------------------------------------------------------
(* parse_document on a few blocks that open nodes, then one block that the  *)
(* classifier is probed with                                                *)

MaxContext == 2

Probed == \E k \in 1..Len(consumed) : consumed[k] \in ProbeBlocks

ProcessContextBlock(block) ==
    /\ ~Probed
    /\ Len(consumed) < MaxContext
    /\ ProcessTextBlock(block)

ProcessProbeBlock(block) ==
    /\ ~Probed
    /\ ProcessTextBlock(block)

NextClassifier ==
    \/ \E block \in ContextBlocks : ProcessContextBlock(block)
    \/ \E block \in ProbeBlocks : ProcessProbeBlock(block)
    \/ CloseAllNodes

SpecClassifier == Init /\ [][NextClassifier]_vars

-----------------------------------------------------------------------------
(* Overlapping parse_document invocations: each step below is one of the    *)
(* per-fragment steps of one invocation; the invocations take turns freely. *)
(* The nodes of all invocations live in `heap`.                             *)

MaxThreadFrags == 2

\* the blocks the overlapping invocations read
ThreadBlocks == {SectionPay, CapitalA, Paragraph}

ClassAttribute(invocation) == 1

\* the object whose fields `self.current_hierarchy_stack` and
\* `self.next_node_id` denote in an invocation: instance attributes
SelfOf(invocation) == invocation.self

\* the parser state an invocation works on: the fields of its object, its own
\* root_nodes, the nodes
InvocationState(i) ==
    State(parsers[SelfOf(invocations[i])].current_hierarchy_stack,
          parsers[SelfOf(invocations[i])].next_node_id,
          invocations[i].root_nodes, heap)

\* parse_document's first lines: the stack and the counter of the object are
\* reset, root_nodes is a new list
ParseDocumentStart(i) ==
    /\ invocations[i].pc = "invoked"
    /\ parsers' = [parsers EXCEPT ![SelfOf(invocations[i])] = NewParser]
    /\ invocations' = [invocations EXCEPT ![i].pc = "parsing", ![i].root_nodes = <<>>]
    /\ UNCHANGED <<current_hierarchy_stack, next_node_id, root_nodes, heap, pc, consumed, last,
                   document_json, flattened_json, results, batch>>

\* the fields and locals as _process_text_block left them
LeaveInvocation(i, block, done) ==
    /\ parsers' = [parsers EXCEPT ![SelfOf(invocations[i])] =
                       [current_hierarchy_stack |-> done.st.stack,
                        next_node_id |-> done.st.next_node_id]]
    /\ invocations' = [invocations EXCEPT
                           ![i].root_nodes = done.st.roots,
                           ![i].consumed = Append(@, block),
                           ![i].pc = IF done.raised THEN "raised" ELSE "parsing"]
    /\ heap' = done.st.nodes

\* one turn of the loop of invocation i
ParseDocumentBlock(i, block) ==
    /\ invocations[i].pc = "parsing"
    /\ Len(invocations[i].consumed) < MaxThreadFrags
    /\ LeaveInvocation(i, block, _process_text_block(InvocationState(i), block))
    /\ UNCHANGED <<current_hierarchy_stack, next_node_id, root_nodes, pc, consumed, last,
                   document_json, flattened_json, results, batch>>

\* _close_all_nodes, return root_nodes
ParseDocumentReturn(i) ==
    /\ invocations[i].pc = "parsing"
    /\ parsers' = [parsers EXCEPT ![SelfOf(invocations[i])].current_hierarchy_stack = <<>>]
    /\ invocations' = [invocations EXCEPT ![i].pc = "returned"]
    /\ UNCHANGED <<current_hierarchy_stack, next_node_id, root_nodes, heap, pc, consumed, last,
                   document_json, flattened_json, results, batch>>

\* the two invocations run on two parser objects, or on the same one
InitThreads ==
    /\ current_hierarchy_stack = <<>>
    /\ next_node_id = 1
    /\ root_nodes = <<>>
    /\ heap = <<>>
    /\ pc = "parsing"
    /\ consumed = <<>>
    /\ last = NoStep
    /\ document_json = NoDocument
    /\ flattened_json = NoDocument
    /\ \E second \in {1, 2} : ThreadsInit(second)
    /\ BatchInit

NextThreads ==
    \E i \in {1, 2} :
        \/ ParseDocumentStart(i)
        \/ \E block \in ThreadBlocks : ParseDocumentBlock(i, block)
        \/ ParseDocumentReturn(i)

SpecThreads == InitThreads /\ [][NextThreads]_vars

-----------------------------------------------------------------------------
(* Batch processing: PDFPreprocessor.process_all_documents of main.py *)

\* config.DOCUMENT_MAPPINGS, in the order the dict yields its items
DOCUMENT_MAPPINGS ==
    <<[pdf_filename |-> "current-contract.pdf", json_filename |-> "contractA.json"],
      [pdf_filename |-> "proposed-contract.pdf", json_filename |-> "contractB.json"]>>

\* the calls process_single_document makes, in order, and what each may give
Pipeline == <<"exists", "extract", "structure", "enrich", "validate", "save", "stats">>

Outcomes(step) ==
    CASE step = "exists" -> {"found", "missing"}
      [] step = "extract" -> {"blocks", "empty"}
      [] step = "structure" -> {"sections", "no_sections", "raise"}
      [] step = "enrich" -> {"ok", "raise"}
      [] step = "validate" -> {"ok", "warnings", "raise"}
      [] step = "save" -> {"ok", "raise"}
      [] step = "stats" -> {"ok"}

GoOn(step) == [kind |-> "next", step |-> Pipeline[(CHOOSE k \in 1..Len(Pipeline) : Pipeline[k] = step) + 1]]
Return(success, event) == [kind |-> "return", success |-> success, event |-> event]
Propagate(step) == [kind |-> "raise", step |-> step]

process_single_document_unguarded(step, outcome) ==
    CASE outcome = "missing" -> Return(FALSE, "Input file not found")
      [] outcome = "empty" -> Return(FALSE, "No content extracted from PDF")
      [] outcome = "no_sections" -> Return(FALSE, "No sections created during structuring")
      [] outcome = "raise" -> Propagate(step)
      [] step = "stats" -> Return(TRUE, "Saved processed document")
      [] OTHER -> GoOn(step)

\* one call of process_single_document's body and what follows it: the next
\* call, a return, or (never, under `except Exception`) an exception that leaves
process_single_document(step, outcome) ==
    CASE outcome = "missing" -> Return(FALSE, "Input file not found")
      [] outcome = "empty" -> Return(FALSE, "No content extracted from PDF")
      [] outcome = "no_sections" -> Return(FALSE, "No sections created during structuring")
      [] outcome = "raise" -> Return(FALSE, "Error processing " \o step)
      [] step = "stats" -> Return(TRUE, "Saved processed document")
      [] OTHER -> GoOn(step)

\* `for pdf_filename, json_filename in DOCUMENT_MAPPINGS.items():` takes the
\* next document and calls process_single_document
NextDocument ==
    /\ batch.pc = "loop"
    /\ batch.index < Len(DOCUMENT_MAPPINGS)
    /\ batch' = [batch EXCEPT !.pc = "document", !.index = @ + 1, !.step = Pipeline[1],
                              !.attempts = Append(@, DOCUMENT_MAPPINGS[batch.index + 1].pdf_filename)]
    /\ UNCHANGED <<current_hierarchy_stack, next_node_id, root_nodes, heap, pc, consumed, last,
                   document_json, flattened_json, parsers, invocations, results>>

\* `results[pdf_filename] = success` once the call returned; an exception that
\* left the call would leave process_all_documents too
AfterCall(pdf_filename, after) ==
    /\ batch' = IF after.kind = "next" THEN [batch EXCEPT !.step = after.step]
                ELSE IF after.kind = "return"
                THEN [batch EXCEPT !.pc = "loop", !.step = "none",
                                   !.log = Append(@, [pdf_filename |-> pdf_filename,
                                                      event |-> after.event])]
                ELSE [batch EXCEPT !.pc = "raised"]
    /\ results' = IF after.kind = "return"
                  THEN [name \in DOMAIN results \cup {pdf_filename} |->
                           IF name = pdf_filename THEN after.success ELSE results[name]]
                  ELSE results

ProcessSingleDocument(outcome) ==
    /\ batch.pc = "document"
    /\ outcome \in Outcomes(batch.step)
    /\ AfterCall(DOCUMENT_MAPPINGS[batch.index].pdf_filename,
                 process_single_document(batch.step, outcome))
    /\ UNCHANGED <<current_hierarchy_stack, next_node_id, root_nodes, heap, pc, consumed, last,
                   document_json, flattened_json, parsers, invocations>>

\* the loop is over: _print_summary(results), return results
PrintSummary ==
    /\ batch.pc = "loop"
    /\ batch.index = Len(DOCUMENT_MAPPINGS)
    /\ batch' = [batch EXCEPT !.pc = "done"]
    /\ UNCHANGED <<current_hierarchy_stack, next_node_id, root_nodes, heap, pc, consumed, last,
                   document_json, flattened_json, parsers, invocations, results>>

NextBatch ==
    \/ NextDocument
    \/ \E outcome \in {"found", "missing", "blocks", "empty", "sections", "no_sections",
                       "ok", "warnings", "raise"} : ProcessSingleDocument(outcome)
    \/ PrintSummary

SpecBatch == Init /\ [][NextBatch]_vars

-----------------------------------------------------------------------------
(* Properties of the hierarchy builder, checked under Spec *)

StackLevel(i) == hierarchy_levels(heap[current_hierarchy_stack[i]].type)

\* C1: at every point of parse_document the structural levels of the nodes on
\* the open stack increase strictly from bottom to top, so the stack never
\* holds more than 4 nodes.
C1_StackLevelsIncrease ==
    /\ \A i \in 1..(Len(current_hierarchy_stack) - 1) : StackLevel(i) < StackLevel(i + 1)
    /\ \A i \in 1..Len(current_hierarchy_stack) : StackLevel(i) \in 1..4
    /\ Len(current_hierarchy_stack) <= 4

C1_Witness ==
    /\ Len(current_hierarchy_stack) = 4
    /\ [i \in 1..4 |-> StackLevel(i)] = <<1, 2, 3, 4>>

IsNode(ref, type, identifier, title) ==
    /\ heap[ref].type = type
    /\ heap[ref].identifier_text = identifier
    /\ heap[ref].title_text = title

ContentTexts(ref) ==
    [i \in 1..Len(heap[ref].content_text_blocks) |-> heap[ref].content_text_blocks[i]["text"]]

PayScenario == <<SectionPay, CapitalA, Paragraph, CapitalB>>

\* C2: parsing "SECTION 1: Pay" (bold, 72), "A. Hourly wage" (90), "Employees
\* are paid hourly." (90), "B. Overtime" (90) yields one root, section "1"
\* titled "Pay", with exactly two children: capital item "A" titled "Hourly
\* wage" holding the one content fragment, and capital item "B" titled
\* "Overtime" with no content.
C2_PayScenario ==
    (pc = "parsed" /\ consumed = PayScenario) =>
        /\ Len(root_nodes) = 1
        /\ IsNode(root_nodes[1], "section", "1", "Pay")
        /\ Len(heap[root_nodes[1]].children) = 2
        /\ LET a == heap[root_nodes[1]].children[1]
               b == heap[root_nodes[1]].children[2]
           IN  /\ IsNode(a, "capital_letter_item", "A", "Hourly wage")
               /\ ContentTexts(a) = <<"Employees are paid hourly.">>
               /\ IsNode(b, "capital_letter_item", "B", "Overtime")
               /\ heap[b].content_text_blocks = <<>>

\* Four blocks were read and each opened a node: section "1", capital item "A",
\* number item "1", section "2", in this order
ClosingScenario ==
    /\ pc = "parsed"
    /\ Len(consumed) = 4
    /\ Len(heap) = 4
    /\ [i \in 1..4 |-> heap[i].type] =
           <<"section", "capital_letter_item", "number_item", "section">>
    /\ [i \in 1..4 |-> heap[i].identifier_text] = <<"1", "A", "1", "2">>

\* C3: for four fragments classified in order as section "1", capital item "A",
\* number item "1", section "2", the finished forest has exactly two roots, both
\* sections; "A" is the only child of section 1, number item "1" the only child
\* of "A", and section 2 has no children and no content.
C3_ClosingCorrectness ==
    ClosingScenario =>
        /\ root_nodes = <<1, 4>>
        /\ heap[1].children = <<2>>
        /\ heap[2].children = <<3>>
        /\ heap[3].children = <<>>
        /\ heap[4].children = <<>>
        /\ heap[4].content_text_blocks = <<>>

C3_Witness == ClosingScenario /\ consumed = <<SectionPay, CapitalA, NumberOne, SectionHours>>

\* one call of _handle_content, made with a non-empty stack, appended its block
\* to the top node's content list and changed no other list
AppendedToTop(call) ==
    LET top == Top(call.pre.stack)
    IN  /\ call.post.nodes[top].content_text_blocks =
               Append(call.pre.nodes[top].content_text_blocks, call.block)
        /\ Len(call.post.nodes) = Len(call.pre.nodes)
        /\ \A ref \in 1..Len(call.pre.nodes) :
               /\ call.post.nodes[ref].children = call.pre.nodes[ref].children
               /\ ref # top => call.post.nodes[ref].content_text_blocks =
                                   call.pre.nodes[ref].content_text_blocks

\* C4: whenever a fragment is handled as content while the open stack is
\* non-empty, it is appended at the end of the content list of the node on top
\* of the stack, and the content lists and the children of every other node,
\* the ancestors on the stack included, are unchanged.  The calls are those the
\* step made on the block it read: the first finds the nodes as they were
\* before the step, the last leaves the parser as it is after the step.
C4_ContentAttachment ==
    [][\A i \in 1..Len(last'.calls) :
          /\ last'.calls[i].block = consumed'[Len(consumed')]
          /\ last'.calls[i].pre.stack # <<>> => AppendedToTop(last'.calls[i])
          /\ i = 1 => last'.calls[i].pre.nodes = heap
          /\ i > 1 => last'.calls[i].pre = last'.calls[i - 1].post
          /\ i = Len(last'.calls) => last'.calls[i].post = ParserState'
      ]_vars

C4_Witness ==
    /\ last.op = "block"
    /\ ~last.raised
    /\ Len(last.calls) = 1
    /\ Len(last.calls[1].pre.stack) >= 2
    /\ last.calls[1].pre.nodes[Top(last.calls[1].pre.stack)].content_text_blocks # <<>>
    /\ heap = last.calls[1].post.nodes

\* C5: every content fragment handled while the open stack is empty is
\* discarded: it creates no node, leaves roots, stack and id counter unchanged,
\* and the parse goes on with the next fragment without raising.
C5_OrphanDrop ==
    \A i \in 1..Len(last.calls) :
        last.calls[i].pre.stack = <<>> =>
            /\ last.calls[i].post = last.calls[i].pre
            /\ ~last.raised
            /\ pc = "parsing"

\* C6: parse_document never raises, whatever the fragments, those that lack an
\* expected field included.
C6_NeverRaises == pc # "raised"

RECURSIVE DecimalValue(_)
\* int(s) for a string of decimal digits
DecimalValue(s) ==
    IF s = "" THEN 0
    ELSE 10 * DecimalValue(SubSeq(s, 1, Len(s) - 1))
         + ((CHOOSE k \in 1..Len(DecimalDigits) : Ch(DecimalDigits, k) = Ch(s, Len(s))) - 1)

\* the number in "node_NNNNNN"
IdNumber(id) == DecimalValue(From(id, Len("node_") + 1))

\* C7: within one parse_document call the node ids are pairwise distinct and
\* follow the creation order: a node created from an earlier header has a
\* smaller id number than a node created from a later one.
C7_IdsDistinctAndOrdered ==
    \A i, j \in 1..Len(heap) :
        i < j => /\ heap[i].id # heap[j].id
                 /\ IdNumber(heap[i].id) < IdNumber(heap[j].id)
                 /\ SubSeq(heap[i].id, 1, Len("node_")) = "node_"

\* three nodes, and one id taken by a header whose node was never built
C7_Witness ==
    /\ Len(heap) = 3
    /\ next_node_id = 5
    /\ IdNumber(heap[3].id) = 4

-----------------------------------------------------------------------------
(* Properties of the serializer and the flattener, checked under SpecExtract *)

RECURSIVE TextsOf(_)
\* the texts of the blocks of a content list that carry one, in list order
TextsOf(blocks) ==
    IF blocks = <<>> THEN <<>>
    ELSE LET before == TextsOf(SubSeq(blocks, 1, Len(blocks) - 1))
             block == blocks[Len(blocks)]
         IN  IF "text" \in DOMAIN block THEN Append(before, block["text"]) ELSE before

RECURSIVE JoinedBySpaces(_)
\* t1, then one space and t2, then one space and t3, ...
JoinedBySpaces(texts) ==
    IF texts = <<>> THEN ""
    ELSE IF Len(texts) = 1 THEN texts[1]
    ELSE JoinedBySpaces(SubSeq(texts, 1, Len(texts) - 1)) \o " " \o texts[Len(texts)]

RECURSIVE SerializedAs(_, _)
\* `json` is what C9 says of the serialization of node `ref`
SerializedAs(json, ref) ==
    /\ json.id = heap[ref].id
    /\ json.type = heap[ref].type
    /\ json.identifier_text = heap[ref].identifier_text
    /\ json.title_text = heap[ref].title_text
    /\ json.page_number_start = heap[ref].page_number_start
    /\ json.page_number_end = heap[ref].page_number_end
    /\ json.content_text = JoinedBySpaces(TextsOf(heap[ref].content_text_blocks))
    /\ Len(json.children) = Len(heap[ref].children)
    /\ \A i \in 1..Len(json.children) : SerializedAs(json.children[i], heap[ref].children[i])

\* C9: for every node, convert_node_to_json gives a content_text equal to the
\* texts of the node's content fragments, in attachment order, joined by single
\* spaces, and a children list holding the serialization of each child in the
\* order of node.children; id, type, identifier, title, page_number_start and
\* page_number_end are copied unchanged.
C9_NodeSerialization ==
    pc \in {"converted", "flattened"} =>
        /\ Len(document_json.sections) = Len(root_nodes)
        /\ \A i \in 1..Len(root_nodes) : SerializedAs(document_json.sections[i], root_nodes[i])

C9_Witness ==
    /\ pc = "converted"
    /\ \E ref \in 1..Len(heap) :
           /\ Len(heap[ref].content_text_blocks) >= 2
           /\ heap[ref].content_text_blocks[1] # heap[ref].content_text_blocks[2]
           /\ heap[ref].children # <<>>

Children(ref) == {heap[ref].children[i] : i \in 1..Len(heap[ref].children)}

\* the node that holds `ref` among its children, 0 for a root
ParentOf(ref) ==
    IF \E m \in 1..Len(heap) : ref \in Children(m)
    THEN CHOOSE m \in 1..Len(heap) : ref \in Children(m)
    ELSE 0

RECURSIVE Depth(_)
Depth(ref) == IF ParentOf(ref) = 0 THEN 0 ELSE Depth(ParentOf(ref)) + 1

RECURSIVE InSubtree(_, _)
\* `ref` is `top` or a descendant of it
InSubtree(ref, top) ==
    \/ ref = top
    \/ ParentOf(ref) # 0 /\ InSubtree(ParentOf(ref), top)

FlatSections == flattened_json.sections

\* where the flat list holds the section of node `ref`
FlatPosition(ref) == CHOOSE i \in 1..Len(FlatSections) : FlatSections[i].id = heap[ref].id

\* the ordered lists of siblings of the forest: the roots, and each node's children
SiblingLists == {root_nodes} \cup {heap[m].children : m \in 1..Len(heap)}

\* C10: flatten_hierarchy_for_compatibility emits exactly one flat section per
\* node of the tree, in depth-first pre-order (a node before its children,
\* children in order, a whole subtree before the next sibling); a section's
\* hierarchy.level is the node's depth, 0 for a root, and has_children is true
\* exactly when the node has a child.
C10_FlattenPreOrder ==
    pc = "flattened" =>
        /\ Len(FlatSections) = Len(heap)
        /\ \A ref \in 1..Len(heap) :
               Cardinality({i \in 1..Len(FlatSections) : FlatSections[i].id = heap[ref].id}) = 1
        /\ \A ref \in 1..Len(heap) :
               /\ FlatSections[FlatPosition(ref)].hierarchy.level = Depth(ref)
               /\ FlatSections[FlatPosition(ref)].hierarchy.has_children = (heap[ref].children # <<>>)
               /\ ParentOf(ref) # 0 => FlatPosition(ParentOf(ref)) < FlatPosition(ref)
        /\ \A siblings \in SiblingLists : \A i, j \in 1..Len(siblings) :
               i < j => \A ref \in 1..Len(heap) :
                           InSubtree(ref, siblings[i]) =>
                               FlatPosition(ref) < FlatPosition(siblings[j])

\* a node with two children, the first of which has a child of its own
C10_Witness ==
    /\ pc = "flattened"
    /\ Len(heap) = 4
    /\ root_nodes = <<1>>
    /\ heap[1].children = <<2, 4>>
    /\ heap[2].children = <<3>>
    /\ Len(FlatSections) = 4

\* the identifier of a node, or its title when the identifier is empty
PathLabel(ref) ==
    IF heap[ref].identifier_text # "" THEN heap[ref].identifier_text ELSE heap[ref].title_text

RECURSIVE AncestorPath(_)
\* the labels of the ancestors of `ref`, from the root down to its parent,
\* joined by " > "; the empty string for a root
AncestorPath(ref) ==
    IF ParentOf(ref) = 0 THEN ""
    ELSE IF ParentOf(ParentOf(ref)) = 0 THEN PathLabel(ParentOf(ref))
    ELSE AncestorPath(ParentOf(ref)) \o " > " \o PathLabel(ParentOf(ref))

ParentPathOf(ref) == FlatSections[FlatPosition(ref)].hierarchy.parent_path

\* how many times " > " occurs in a path
Separators(path) == Cardinality({i \in 1..(Len(path) - 2) : SubSeq(path, i, i + 2) = " > "})

\* C11 as stated: each section's parent_path is the empty string for a root and
\* otherwise the identifiers (or titles) of its ancestors from the root down to
\* its parent, joined by " > "; the node's own identifier never appears in its
\* own parent_path.
C11_ParentPath ==
    pc = "flattened" =>
        \A ref \in 1..Len(heap) :
            /\ ParentPathOf(ref) = AncestorPath(ref)
            /\ ~Contains(ParentPathOf(ref), heap[ref].identifier_text)

\* C11 amended: each section's parent_path is the empty string for a root and
\* otherwise the identifiers (or titles) of its ancestors from the root down to
\* its parent, joined by " > "; the node adds no element of its own, so the path
\* has one element per ancestor (an ancestor may carry the node's identifier).
C11_ParentPathOfAncestors ==
    pc = "flattened" =>
        \A ref \in 1..Len(heap) :
            /\ ParentPathOf(ref) = AncestorPath(ref)
            /\ FlatSections[FlatPosition(ref)].metadata.parent_path = AncestorPath(ref)
            /\ Depth(ref) = 0 => ParentPathOf(ref) = ""
            /\ Depth(ref) > 0 => Separators(ParentPathOf(ref)) = Depth(ref) - 1

\* number item "1" under capital item "A" under section "1"
C11_Witness ==
    /\ pc = "flattened"
    /\ \E ref \in 1..Len(heap) :
           /\ Depth(ref) = 2
           /\ heap[ref].identifier_text = "1"
           /\ ParentPathOf(ref) = "1 > A"

-----------------------------------------------------------------------------
(* Properties of overlapping invocations, checked under SpecThreads *)

RECURSIVE Tree(_, _)
\* a node with its children in place of the references to them
Tree(nodes, ref) ==
    [nodes[ref] EXCEPT !.children = [k \in 1..Len(@) |-> Tree(nodes, @[k])]]

Forest(nodes, roots) == [k \in 1..Len(roots) |-> Tree(nodes, roots[k])]

\* the next turn of the loop, unless an exception already left it
ContinueAlone(before, block) ==
    IF before.raised THEN before ELSE _process_text_block(before.st, block)

RECURSIVE Alone(_)
\* parse_document's loop over `blocks`, run with nothing else going on
Alone(blocks) ==
    IF blocks = <<>> THEN Returned(State(<<>>, 1, <<>>, <<>>), <<>>)
    ELSE ContinueAlone(Alone(SubSeq(blocks, 1, Len(blocks) - 1)), blocks[Len(blocks)])

\* invocation i stands where the same invocation stands when it runs alone:
\* same forest with the same ids under its roots, same counter, same open nodes
AsAlone(i, alone) ==
    /\ Forest(heap, invocations[i].root_nodes) = Forest(alone.st.nodes, alone.st.roots)
    /\ (invocations[i].pc = "raised") = alone.raised
    /\ invocations[i].pc \in {"parsing", "raised"} =>
           /\ parsers[invocations[i].self].next_node_id = alone.st.next_node_id
           /\ Forest(heap, parsers[invocations[i].self].current_hierarchy_stack)
                  = Forest(alone.st.nodes, alone.st.stack)

RunsAsAlone(i) ==
    invocations[i].pc # "invoked" => AsAlone(i, Alone(invocations[i].consumed))

\* C12: two parse_document runs on two independent HierarchicalParser
\* instances, their per-fragment steps interleaved in any order, each produce
\* the forest and the ids the same run produces when executed alone; no step of
\* one run touches the stack, the counter or the nodes of the other.
C12_IndependentParsers ==
    invocations[1].self # invocations[2].self => \A i \in {1, 2} : RunsAsAlone(i)

\* both runs read two blocks in turns and returned a forest of their own
C12_Witness ==
    /\ invocations[1].self # invocations[2].self
    /\ \A i \in {1, 2} :
           /\ invocations[i].pc = "returned"
           /\ Len(invocations[i].consumed) = 2
           /\ invocations[i].root_nodes # <<>>
    /\ invocations[1].root_nodes = <<1>>
    /\ invocations[2].root_nodes = <<2>>
    /\ Len(heap) = 4

\* C13: the open stack and the id counter are local to one parse invocation:
\* when two parse_document invocations overlap, on the same HierarchicalParser
\* object included, neither resets, reads or modifies the stack or the counter
\* of the other, and each returns the forest it returns when run alone.
C13_InvocationLocalState ==
    \A i \in {1, 2} : RunsAsAlone(i)

-----------------------------------------------------------------------------
(* Properties of the batch, checked under SpecBatch *)

Configured == [k \in 1..Len(DOCUMENT_MAPPINGS) |-> DOCUMENT_MAPPINGS[k].pdf_filename]

\* C14: in process_all_documents every configured document is attempted
\* exactly once and gets a success/failure entry in the result map, whatever
\* happened to the documents before it: a failure (missing file, no content,
\* exception) of one document is recorded as False and never stops or skips
\* the remaining documents.
C14_BatchIsolation ==
    /\ batch.pc # "raised"
    /\ batch.attempts = SubSeq(Configured, 1, batch.index)
    /\ Len(batch.log) = Cardinality(DOMAIN results)
    /\ \A k \in 1..Len(batch.log) :
           /\ batch.log[k].pdf_filename = Configured[k]
           /\ Configured[k] \in DOMAIN results
           /\ results[Configured[k]] = (batch.log[k].event = "Saved processed document")
    /\ batch.pc = "loop" => Len(batch.log) = batch.index
    /\ batch.pc = "document" => Len(batch.log) = batch.index - 1
    /\ batch.pc = "done" =>
           /\ batch.attempts = Configured
           /\ DOMAIN results = {Configured[k] : k \in 1..Len(Configured)}

\* the first document failed on an exception, the second was processed
C14_Witness ==
    /\ batch.pc = "done"
    /\ results = [name \in {"current-contract.pdf", "proposed-contract.pdf"} |->
                     name = "proposed-contract.pdf"]
    /\ batch.log[1].event = "Error processing save"

-----------------------------------------------------------------------------
(* The closing rule and the classifier's gates *)

\* the step just taken read one more block
ReadBlock == Len(consumed') = Len(consumed) + 1

BlockRead == consumed'[Len(consumed')]

\* what the classifier says of `block` before the step; not a header when the
\* classifier cannot read the block
ClassifiedAs(block) ==
    IF IdentifyFields \subseteq DOMAIN block
    THEN _identify_header(current_hierarchy_stack, heap, block)
    ELSE NotAHeader

\* the open stack without the maximal run of nodes of level >= `level` at its top
KeptBelow(level) ==
    LET lower == {k \in 1..Len(current_hierarchy_stack) : StackLevel(k) < level}
    IN  SubSeq(current_hierarchy_stack, 1,
               IF lower = {} THEN 0 ELSE CHOOSE k \in lower : \A m \in lower : m <= k)

\* the step closed the nodes `kept` leaves out, then created one node of the
\* classified kind, made it the last child of the top of `kept`, or the last
\* root when `kept` is empty, and pushed it
ClosedAndPushed(header_info, kept) ==
    /\ Len(heap') = Len(heap) + 1
    /\ heap'[Len(heap')].type = header_info.header_type
    /\ heap'[Len(heap')].identifier_text = header_info.identifier
    /\ heap'[Len(heap')].title_text = header_info.title
    /\ current_hierarchy_stack' = Append(kept, Len(heap'))
    /\ \A k \in 1..Len(current_hierarchy_stack) - 1 :
           StackLevel(k) = hierarchy_levels(header_info.header_type)
               => current_hierarchy_stack[k] \notin {kept[m] : m \in 1..Len(kept)}
    /\ IF kept = <<>>
       THEN /\ root_nodes' = Append(root_nodes, Len(heap'))
            /\ \A ref \in 1..Len(heap) : heap'[ref].children = heap[ref].children
       ELSE /\ root_nodes' = root_nodes
            /\ \A ref \in 1..Len(heap) :
                   heap'[ref].children = IF ref = Top(kept)
                                         THEN Append(heap[ref].children, Len(heap'))
                                         ELSE heap[ref].children

HeaderClosedAndPushed(header_info) ==
    header_info.is_header =>
        ClosedAndPushed(header_info, KeptBelow(hierarchy_levels(header_info.header_type)))

\* C15: when a fragment is classified as a header of level L, exactly the
\* maximal run of nodes at the top of the open stack whose level is >= L is
\* popped, then the new node is appended as the last child of the new stack
\* top, or as the last root when the stack is empty, and pushed; a header of
\* the kind of an open node closes that node and everything open beneath it.
C15_ClosingRule ==
    [][ReadBlock => HeaderClosedAndPushed(ClassifiedAs(BlockRead))]_vars

-----------------------------------------------------------------------------
(* Properties of the classifier, checked under SpecClassifier *)

\* C16: whenever the open stack is non-empty, the parent indentation used to
\* classify the next fragment is the header indentation of the node on top of
\* the stack, for every value of it, 0 included; the base left margin is used
\* only when the stack is empty.
C16_ParentIndentation ==
    /\ current_hierarchy_stack # <<>> =>
           _get_current_parent_indentation(current_hierarchy_stack, heap)
               = heap[Top(current_hierarchy_stack)].indentation_header
    /\ current_hierarchy_stack = <<>> =>
           _get_current_parent_indentation(current_hierarchy_stack, heap) = base_left_margin

\* the kind of the node the step created, "none" when it created none
KindCreated == IF Len(heap') = Len(heap) + 1 THEN heap'[Len(heap')].type ELSE "none"

\* a capital item whose header is at indentation 90 is on top of the stack
CapitalAt90OnTop ==
    /\ current_hierarchy_stack # <<>>
    /\ heap[Top(current_hierarchy_stack)].type = "capital_letter_item"
    /\ heap[Top(current_hierarchy_stack)].indentation_header = 90

NestingGate(block, parent_indent) ==
    /\ KindCreated \in {"capital_letter_item", "number_item", "lowercase_letter_item"}
           => block["indentation_level"] > parent_indent + indentation_tolerance
    /\ (CapitalAt90OnTop /\ block = NumberAt95) =>
           /\ KindCreated = "none"
           /\ current_hierarchy_stack' = current_hierarchy_stack
           /\ heap'[Top(current_hierarchy_stack)].content_text_blocks
                  = Append(heap[Top(current_hierarchy_stack)].content_text_blocks, block)
    /\ (CapitalAt90OnTop /\ block = NumberAt96) =>
           /\ KindCreated = "number_item"
           /\ current_hierarchy_stack' = Append(current_hierarchy_stack, Len(heap'))
           /\ heap'[Top(current_hierarchy_stack)].children
                  = Append(heap[Top(current_hierarchy_stack)].children, Len(heap'))

\* C17: with tolerance 5 and a capital item at indentation 90 on top of the
\* stack, a number-item text at indentation exactly 95 is not accepted as a
\* header, it becomes content of the capital item, while at 96 it is accepted
\* as a number_item child of the capital item; a letter or number item is
\* accepted only when indentation > parent_indentation + indentation_tolerance.
C17_NestingGateBoundary ==
    [][ReadBlock =>
          NestingGate(BlockRead, _get_current_parent_indentation(current_hierarchy_stack, heap))
      ]_vars

C17_Witness ==
    /\ consumed = <<SectionPay, CapitalA, NumberAt96>>
    /\ Len(heap) = 3
    /\ heap[3].type = "number_item"
    /\ heap[2].children = <<3>>

\* the kind of the first rule, in the order section, letter of agreement,
\* capital item, number item, lowercase item, whose pattern and gate both
\* hold for `block`; "none" when no rule accepts
FirstAcceptingRule(block, parent_indent) ==
    LET text == Strip(block["text"])
    IN  IF _is_section_header(text, block["avg_font_size"], block["is_bold"],
                              block["indentation_level"]).ok THEN "section"
        ELSE IF _is_loa_header(text, block["avg_font_size"], block["is_bold"],
                               block["indentation_level"]).ok THEN "loa"
        ELSE IF _is_capital_letter_header(text, block["indentation_level"], parent_indent).ok
             THEN "capital_letter_item"
        ELSE IF _is_number_header(text, block["indentation_level"], parent_indent).ok
             THEN "number_item"
        ELSE IF _is_lowercase_letter_header(text, block["indentation_level"], parent_indent).ok
             THEN "lowercase_letter_item"
        ELSE "none"

\* C18: classification is a first-match cascade: the result is the kind of the
\* first rule, in the order section, letter of agreement, capital item, number
\* item, lowercase item, whose pattern and gate both hold, and not a header
\* when no rule accepts; a later rule never classifies what an earlier accepts.
C18_FirstMatchCascade ==
    [][ReadBlock =>
          KindCreated = FirstAcceptingRule(BlockRead,
                            _get_current_parent_indentation(current_hierarchy_stack, heap))
      ]_vars

\* "C. Cabin crew", bold and nested: the section rule and the capital rule both
\* accept it, and it became a section
C18_Witness ==
    /\ Len(consumed) = 2
    /\ consumed[1] = SectionPay
    /\ consumed[2] = TextBlock("C. Cabin crew", 1, 96, 10, TRUE)
    /\ _is_capital_letter_header("C. Cabin crew", 96, 72).ok
    /\ Len(heap) = 2
    /\ heap[2].type = "section"
    /\ root_nodes = <<1, 2>>

\* C19: a fragment whose text starts with a single lowercase letter followed by
\* "." or ")", whatever the letter, the indentation, the font size and the
\* boldness, is classified as lowercase_letter_item or as content, never as
\* section, letter of agreement or capital_letter_item.
C19_LowercaseItemsOnly ==
    [][(ReadBlock /\ BlockRead["text"] \in LowercaseTexts) =>
          KindCreated \in {"lowercase_letter_item", "none"}
      ]_vars

SectionGate(block) ==
    \/ block["indentation_level"] < base_left_margin + 20
    \/ block["avg_font_size"] >= section_font_threshold
    \/ block["is_bold"]

MatchesSectionPattern(text) ==
    \E k \in 1..Len(Matches(text).section) : Matches(text).section[k].ok

\* C20: a fragment whose text matches a section pattern is classified as
\* section if and only if indentation < base_left_margin + 20 (91 accepted, 92
\* not) or avg_font_size >= 14 (14 accepted) or it is bold; when none of the
\* three holds it is not a section and the later rules of the cascade see it.
C20_SectionGate ==
    [][(ReadBlock /\ MatchesSectionPattern(Strip(BlockRead["text"]))) =>
          /\ (KindCreated = "section") = SectionGate(BlockRead)
          /\ ~SectionGate(BlockRead) =>
                 KindCreated = FirstAcceptingRule(BlockRead,
                                   _get_current_parent_indentation(current_hierarchy_stack, heap))
      ]_vars

\* "I. Introduction" at 92, 13 points, not bold: not a section, a capital item
C20_Witness ==
    /\ consumed = <<TextBlock("I. Introduction", 1, 92, 13, FALSE)>>
    /\ Len(heap) = 1
    /\ heap[1].type = "capital_letter_item"
    /\ heap[1].identifier_text = "I"

-----------------------------------------------------------------------------
(* Page ranges and the nodes a step may modify *)

\* the step attached the block it read to node `ref`: as the node's own header,
\* as one more content block, or as the header of one more child
AttachedTo(ref) ==
    \/ ref > Len(heap)
    \/ /\ ref <= Len(heap)
       /\ \/ Len(heap'[ref].content_text_blocks) > Len(heap[ref].content_text_blocks)
          \/ Len(heap'[ref].children) > Len(heap[ref].children)

\* C21: each node's page_number_end is the page of the fragment most recently
\* attached to it, a content fragment appended to it or a child header opened
\* directly under it (its own header to begin with), and its page_number_start
\* is the page of its own header and never changes.
C21_PageRange ==
    [][(ReadBlock /\ "page_number" \in DOMAIN BlockRead) =>
          /\ \A ref \in 1..Len(heap) :
                 heap'[ref].page_number_start = heap[ref].page_number_start
          /\ \A ref \in (Len(heap) + 1)..Len(heap') :
                 heap'[ref].page_number_start = BlockRead["page_number"]
          /\ \A ref \in 1..Len(heap') :
                 heap'[ref].page_number_end =
                     IF AttachedTo(ref) THEN BlockRead["page_number"]
                     ELSE heap[ref].page_number_end
      ]_vars

\* the nodes on the open stack
Open(stack) == {stack[k] : k \in 1..Len(stack)}

\* the one node a step may modify: the top of the stack it leaves, or the node
\* below the top when the step pushed a new node
Modifiable ==
    IF Len(heap') > Len(heap)
    THEN {current_hierarchy_stack'[k] : k \in {Len(current_hierarchy_stack') - 1} \ {0}}
    ELSE {current_hierarchy_stack'[k] : k \in {Len(current_hierarchy_stack')} \ {0}}

\* C22: once a node is popped from the open stack none of its fields changes in
\* any later step: a step modifies only a node that is on the stack before and
\* after it, and only the top one (the parent a new node is pushed onto, or the
\* top a content fragment is appended to).
C22_FrameEffect ==
    [][\A ref \in 1..Len(heap) :
          /\ ref <= Len(heap')
          /\ heap'[ref] # heap[ref] =>
                 /\ ref \in Open(current_hierarchy_stack)
                 /\ ref \in Open(current_hierarchy_stack')
                 /\ ref \in Modifiable
      ]_vars

\* section 1 and its item were popped by section 2, which then took content
C22_Witness ==
    /\ consumed = <<SectionPay, CapitalA, SectionHours, Paragraph>>
    /\ current_hierarchy_stack = <<3>>
    /\ heap[1].children = <<2>>
    /\ heap[3].content_text_blocks = <<Paragraph>>

-----------------------------------------------------------------------------
(* The flattening stage *)

\* C23: flatten_hierarchy_for_compatibility leaves the document it is given,
\* its sections tree, its document_metadata and its processing_info, exactly as
\* it was before the call.
C23_FlattenLeavesInput ==
    [][(pc = "converted" /\ pc' = "flattened") => document_json' = document_json]_vars

RECURSIVE Untagged(_)
\* neither `json`, nor its metadata, nor a node beneath it carries a tag
Untagged(json) ==
    /\ DOMAIN json \cap {"category", "importance"} = {}
    /\ "metadata" \in DOMAIN json => DOMAIN json.metadata \cap {"category", "importance"} = {}
    /\ \A i \in 1..Len(json.children) : Untagged(json.children[i])

\* the category of the first keyword list with a word in `text`
KeywordCategory(text) ==
    LET has(words) == \E word \in words : Contains(text, word)
    IN  CASE has({"schedule", "duty", "time", "hours", "shift"}) -> "scheduling"
          [] has({"pay", "wage", "salary", "compensation"}) -> "pay"
          [] has({"benefit", "insurance", "vacation", "sick"}) -> "benefits"
          [] has({"rule", "procedure", "conduct", "discipline"}) -> "work_rules"
          [] OTHER -> "general"

\* the lowercased content texts of node `ref`, a space, and its title
TaggedText(ref) ==
    Lower(JoinedBySpaces(TextsOf(heap[ref].content_text_blocks)) \o " " \o heap[ref].title_text)

-----------------------------------------------------------------------------
(* The shape of the tree *)

NodeLevel(ref) == hierarchy_levels(heap[ref].type)

\* C25: at every point of the parse each child's structural level is strictly
\* greater than its parent's, so no tree is deeper than 4 nodes, and every
\* flattened section has a hierarchy.level between 0 and 3.
C25_LevelsBoundDepth ==
    /\ \A ref \in 1..Len(heap) : \A child \in Children(ref) : NodeLevel(child) > NodeLevel(ref)
    /\ \A ref \in 1..Len(heap) : Depth(ref) + 1 <= 4
    /\ pc = "flattened" =>
           \A i \in 1..Len(FlatSections) : FlatSections[i].hierarchy.level \in 0..3

\* a section, a capital item, a number item and a lowercase item, nested
C25_Witness ==
    /\ pc = "flattened"
    /\ consumed = <<SectionPay, CapitalA, NumberOne, LowercaseA>>
    /\ Depth(4) = 3
    /\ FlatSections[4].hierarchy.level = 3

\* C26: every section or loa node is a root: it is in the root list and in no
\* node's children list (roots of other kinds may exist).
C26_SectionsAreRoots ==
    \A ref \in 1..Len(heap) :
        heap[ref].type \in {"section", "loa"} =>
            /\ \E k \in 1..Len(root_nodes) : root_nodes[k] = ref
            /\ \A parent \in 1..Len(heap) : ref \notin Children(parent)

\* an appendix met while a section and its item are open
C26_Witness ==
    /\ consumed = <<SectionPay, CapitalA, TextBlock("APPENDIX B. Pay scales", 1, 72, 10, FALSE)>>
    /\ heap[3].type = "loa"
    /\ root_nodes = <<1, 3>>
    /\ current_hierarchy_stack = <<3>>

\* the places that hold `ref`: positions of the root list, and positions of
\* children lists
Holders(ref) ==
    {<<0, k>> : k \in {m \in 1..Len(root_nodes) : root_nodes[m] = ref}}
    \cup UNION {{<<parent, k>> : k \in {m \in 1..Len(heap[parent].children) :
                                               heap[parent].children[m] = ref}} :
                    parent \in 1..Len(heap)}

RECURSIVE ReachesRoot(_, _)
\* following parents from `ref` ends at a root within `fuel` steps
ReachesRoot(ref, fuel) ==
    IF ParentOf(ref) = 0 THEN \E k \in 1..Len(root_nodes) : root_nodes[k] = ref
    ELSE fuel > 0 /\ ReachesRoot(ParentOf(ref), fuel - 1)

\* C27: the open stack is a prefix of the rightmost spine of the forest: its
\* bottom node is the last root and each node on it is the last child of the
\* node directly below; every node is held exactly once, by one parent or by
\* the root list, and is reachable from the roots, so there are no cycles.
C27_RightmostSpine ==
    /\ current_hierarchy_stack # <<>> =>
           /\ root_nodes # <<>>
           /\ current_hierarchy_stack[1] = root_nodes[Len(root_nodes)]
    /\ \A k \in 2..Len(current_hierarchy_stack) :
           LET below == heap[current_hierarchy_stack[k - 1]].children
           IN  below # <<>> /\ below[Len(below)] = current_hierarchy_stack[k]
    /\ \A ref \in 1..Len(heap) :
           /\ Cardinality(Holders(ref)) = 1
           /\ ReachesRoot(ref, Len(heap))

\* a second section opened while the first one, its item and its sub-item were
\* open
C27_Witness ==
    /\ consumed = <<SectionPay, CapitalA, NumberOne, SectionHours>>
    /\ current_hierarchy_stack = <<4>>
    /\ root_nodes = <<1, 4>>
    /\ heap[1].children = <<2>>
    /\ heap[2].children = <<3>>

-----------------------------------------------------------------------------
(* What becomes of each fragment of a well-formed document *)

\* the step made one new node of the block and appended it to no content list
BecameNode ==
    /\ Len(heap') = Len(heap) + 1
    /\ \A ref \in 1..Len(heap) : heap'[ref].content_text_blocks = heap[ref].content_text_blocks

\* the step appended the block once to the content list of exactly one node
BecameContent(block) ==
    /\ Len(heap') = Len(heap)
    /\ Cardinality({ref \in 1..Len(heap) :
                       heap'[ref].content_text_blocks # heap[ref].content_text_blocks}) = 1
    /\ \E ref \in 1..Len(heap) :
           heap'[ref].content_text_blocks = Append(heap[ref].content_text_blocks, block)

\* the step dropped the block, and no header had been accepted yet
DroppedAsOrphan ==
    /\ heap = <<>>
    /\ heap' = heap

Count(flag) == IF flag THEN 1 ELSE 0

-----------------------------------------------------------------------------
(* Indentations of the open nodes *)

ItemKinds == {"capital_letter_item", "number_item", "lowercase_letter_item"}

\* C29: for well-formed fragments with non-negative indentations, the header
\* indentations of the nodes on the open stack increase strictly from bottom to
\* top, each exceeding the one directly below by more than
\* indentation_tolerance; a letter or number item is accepted as a header only
\* when its indentation exceeds that of every node open at that time by more
\* than the tolerance; two item nodes with the same indentation are never open
\* at the same time.
C29_IndentationsIncrease ==
    [][ReadBlock =>
          /\ \A k \in 2..Len(current_hierarchy_stack') :
                 heap'[current_hierarchy_stack'[k]].indentation_header >
                     heap'[current_hierarchy_stack'[k - 1]].indentation_header
                         + indentation_tolerance
          /\ KindCreated \in ItemKinds =>
                 \A ref \in Open(current_hierarchy_stack) :
                     BlockRead["indentation_level"] >
                         heap[ref].indentation_header + indentation_tolerance
          /\ \A i, j \in 1..Len(current_hierarchy_stack') :
                 (/\ i < j
                  /\ heap'[current_hierarchy_stack'[i]].type \in ItemKinds
                  /\ heap'[current_hierarchy_stack'[j]].type \in ItemKinds)
                     => heap'[current_hierarchy_stack'[i]].indentation_header
                            # heap'[current_hierarchy_stack'[j]].indentation_header
      ]_vars

\* a section at indentation 0, a capital item at 90 and a lowercase item at 126
C29_Witness ==
    /\ consumed = <<SectionAtZero, CapitalA, TextBlock("a. item", 1, 126, 10, FALSE)>>
    /\ current_hierarchy_stack = <<1, 2, 3>>
    /\ heap[1].indentation_header = 0
    /\ heap[3].type = "lowercase_letter_item"
    /\ heap[3].indentation_header = 126

-----------------------------------------------------------------------------
(* A fragment whose processing raises *)

\* the step treated `block` as content of the state before it: appended to the
\* node that was on top, dropped when no node was open
TreatedAsContent(block) ==
    IF current_hierarchy_stack = <<>>
    THEN heap' = heap
    ELSE /\ heap'[Top(current_hierarchy_stack)].content_text_blocks =
                Append(heap[Top(current_hierarchy_stack)].content_text_blocks, block)
         /\ \A ref \in 1..Len(heap) :
                ref # Top(current_hierarchy_stack) => heap'[ref] = heap[ref]

\* C30: a fragment whose processing raises an exception, such as a
\* header-shaped fragment that lacks a font field, is treated as pure content
\* relative to the state before that fragment: no node is popped, no id is
\* consumed, no node is created, and the fragment is appended to the node that
\* was on top of the stack before it, or dropped if the stack was empty.
C30_FailureIsPureContent ==
    [][(ReadBlock /\ TryBlock(ParserState, BlockRead).raised) =>
          /\ current_hierarchy_stack' = current_hierarchy_stack
          /\ next_node_id' = next_node_id
          /\ Len(heap') = Len(heap)
          /\ root_nodes' = root_nodes
          /\ TreatedAsContent(BlockRead)
      ]_vars

====
